---- MODULE Spec2Model ----
(***************************************************************************)
(* Model of src/server.py: a URL shortener served by several uvicorn       *)
(* worker processes that share one MongoDB collection ("URL_Collection").  *)
(*                                                                         *)
(* Each worker runs its handlers on one event loop.  The handlers are      *)
(* "async def" but call pymongo synchronously and never await, so a worker *)
(* serves one request at a time.  Different workers are different          *)
(* processes: their store calls interleave freely.  A handler is therefore *)
(* split at its store calls and at its clock reads, which are the only     *)
(* points where another process can be observed.                           *)
(***************************************************************************)
EXTENDS Integers, Sequences, FiniteSets, TLC

(* ------------------------------ bounds -------------------------------- *)

\* Number of shorten requests that can succeed in one run: a shorten request
\* with a valid URL is accepted only while the 201 responses sent and the
\* requests in progress together stay below it.
MaxAllocs == 2

\* Largest value the wall clock reaches.
MaxClock == 1

\* Length of a generated code (the program's default is 7, src/server.py:50).
CodeLength == 1

\* The worker processes (uvicorn workers), each with its own app object.
Workers == {"w1", "w2"}

\* string.ascii_letters + string.digits, cut down to two symbols.
base62 == {"a", "b"}

\* Request bodies: two URLs validators.url accepts and one it rejects.
ValidUrls == {"u1", "u2"}
Urls == ValidUrls \cup {"bad"}

(* --------------------------- pure functions --------------------------- *)

\* Variant of generate_id: range(length - 1), one symbol short.
generate_id_short(length) == [1..(length - 1) -> base62]

\* generate_id(length): every string of `length` symbols of base62 is a
\* possible result of ''.join(random.choice(base62) for _ in range(length)).
generate_id(length) == [1..length -> base62]

Codes == generate_id(CodeLength)

\* A path parameter that no generate_id() call can produce.
doesNotExist == [i \in 1..(CodeLength + 1) |-> "a"]

\* What a client may put in GET /r/{short_url}.
ShortUrls == Codes \cup {doesNotExist}

\* validators.url(request.url)
validators_url(u) == u \in ValidUrls

NoCode == << >>
NoUrl == ""

VARIABLES
    store,      \* URL_Collection: the documents, in insertion order
    dbUp,       \* whether a store call made now succeeds (else pymongo raises)
    clock,      \* datetime.now(timezone.utc)
    pc,         \* per worker: where its url_shorten handler stands
    url,        \* per worker: request.url of the request being served
    id,         \* per worker: local variable id
    document,   \* per worker: the timestamps of local variable document
    collided,   \* per worker: line 80 was logged during the request being served
    resp,       \* the last HTTP response sent by any worker
    returned,   \* history: the (code, url) of every 201 response, in order
    regenerated \* history: the call that sent the last 201 had logged line 80

vars == <<store, dbUp, clock, pc, url, id, document, collided, resp, returned, regenerated>>

\* Indices of the documents find_one(filter={"short_url": c}) may return.
Matching(c) == {i \in 1..Len(store) : store[i].short_url = c}

\* collection.find_one(filter): None (here: the empty set) when nothing
\* matches; otherwise one matching document.  No sort is given, so which of
\* several matching documents comes back is the server's choice.
find_one(c) == {store[i] : i \in Matching(c)}

NoStamp == -1
NoDocument == [created_at |-> NoStamp, updated_at |-> NoStamp]

\* An HTTP response: the endpoint, the outcome, and the code and URL it names.
Response(op, status, c, u) ==
    [op |-> op, status |-> status, code |-> c, url |-> u]

NoResponse == Response("none", "none", NoCode, NoUrl)

Init ==
    /\ store = << >>
    /\ dbUp = TRUE
    /\ clock = 0
    /\ pc = [w \in Workers |-> "idle"]
    /\ url = [w \in Workers |-> NoUrl]
    /\ id = [w \in Workers |-> NoCode]
    /\ document = [w \in Workers |-> NoDocument]
    /\ collided = [w \in Workers |-> FALSE]
    /\ resp = NoResponse
    /\ returned = << >>
    /\ regenerated = FALSE

(* ---------------------------- environment ----------------------------- *)

\* The wall clock advances.
Tick ==
    /\ clock < MaxClock
    /\ clock' = clock + 1
    /\ UNCHANGED <<store, dbUp, pc, url, id, document, collided, resp, returned, regenerated>>

\* The MongoDB deployment becomes unreachable: store calls raise.
DbFail ==
    /\ dbUp
    /\ dbUp' = FALSE
    /\ UNCHANGED <<store, clock, pc, url, id, document, collided, resp, returned, regenerated>>

\* The MongoDB deployment is reachable again.
DbRecover ==
    /\ ~dbUp
    /\ dbUp' = TRUE
    /\ UNCHANGED <<store, clock, pc, url, id, document, collided, resp, returned, regenerated>>

(* ---------------------------- url_shorten ----------------------------- *)

\* The requests being served: workers inside url_shorten.
Busy == {w \in Workers : pc[w] # "idle"}

\* The handler ends: its locals are dropped and the worker is free again.
Finish(w) ==
    /\ pc' = [pc EXCEPT ![w] = "idle"]
    /\ url' = [url EXCEPT ![w] = NoUrl]
    /\ id' = [id EXCEPT ![w] = NoCode]
    /\ document' = [document EXCEPT ![w] = NoDocument]
    /\ collided' = [collided EXCEPT ![w] = FALSE]

\* An exception of a store call leaves the handler: the framework answers
\* 500 Internal Server Error.
Raise(op, c) ==
    resp' = Response(op, "StoreUnavailable", c, NoUrl)

\* Variant of url_shorten_begin: line 68 logs the invalid URL but line 69
\* does not raise, so the handler goes on with it.
url_shorten_begin_unvalidated(w, u) ==
    /\ pc[w] = "idle"
    /\ Len(returned) + Cardinality(Busy) < MaxAllocs
    /\ \E c \in generate_id(CodeLength) :
           id' = [id EXCEPT ![w] = c]
    /\ url' = [url EXCEPT ![w] = u]
    /\ pc' = [pc EXCEPT ![w] = "find"]
    /\ UNCHANGED <<store, dbUp, clock, document, collided, resp, returned, regenerated>>

\* Lines 62-71: validation, then the first generate_id().
url_shorten_begin(w, u) ==
    /\ pc[w] = "idle"
    /\ IF ~validators_url(u)
       THEN /\ resp' = Response("shorten", "InvalidUrl", NoCode, NoUrl)
            /\ UNCHANGED <<store, dbUp, clock, pc, url, id, document, collided, returned, regenerated>>
       ELSE /\ Len(returned) + Cardinality(Busy) < MaxAllocs
            /\ \E c \in generate_id(CodeLength) :
                   id' = [id EXCEPT ![w] = c]
            /\ url' = [url EXCEPT ![w] = u]
            /\ pc' = [pc EXCEPT ![w] = "find"]
            /\ UNCHANGED <<store, dbUp, clock, document, collided, resp, returned, regenerated>>

\* Lines 79-85: curr_url is a document: log, regenerate and look up again.
Regenerate(w) ==
    /\ \E c \in generate_id(CodeLength) :
           id' = [id EXCEPT ![w] = c]
    /\ collided' = [collided EXCEPT ![w] = TRUE]
    /\ UNCHANGED <<store, dbUp, clock, pc, url, document, resp, returned, regenerated>>

\* Line 79 false: curr_url is None, the loop is left with id accepted.
Accept(w) ==
    /\ pc' = [pc EXCEPT ![w] = "created"]
    /\ UNCHANGED <<store, dbUp, clock, url, id, document, collided, resp, returned, regenerated>>

\* find_one raised: the exception ends the handler.
FindRaised(w) ==
    /\ Raise("shorten", NoCode)
    /\ Finish(w)
    /\ UNCHANGED <<store, dbUp, clock, returned, regenerated>>

\* Variant of url_shorten_find: the result of find_one is not tested, the
\* first candidate is always accepted.
url_shorten_find_unchecked(w) ==
    /\ pc[w] = "find"
    /\ IF ~dbUp
       THEN FindRaised(w)
       ELSE Accept(w)

\* Variant of url_shorten_find: an exception of find_one is swallowed and
\* curr_url stays None.
url_shorten_find_swallowing(w) ==
    /\ pc[w] = "find"
    /\ IF ~dbUp
       THEN Accept(w)
       ELSE IF find_one(id[w]) # {}
            THEN Regenerate(w)
            ELSE Accept(w)

\* Lines 76-85: one find_one of the candidate id and the test of line 79.
url_shorten_find(w) ==
    /\ pc[w] = "find"
    /\ IF ~dbUp
       THEN FindRaised(w)
       ELSE IF find_one(id[w]) # {}
            THEN Regenerate(w)
            ELSE Accept(w)

\* Line 90: "created_at": datetime.now(timezone.utc)
url_shorten_created(w) ==
    /\ pc[w] = "created"
    /\ document' = [document EXCEPT ![w].created_at = clock]
    /\ pc' = [pc EXCEPT ![w] = "updated"]
    /\ UNCHANGED <<store, dbUp, clock, url, id, collided, resp, returned, regenerated>>

\* Line 91: "updated_at": datetime.now(timezone.utc)
url_shorten_updated(w) ==
    /\ pc[w] = "updated"
    /\ document' = [document EXCEPT ![w].updated_at = clock]
    /\ pc' = [pc EXCEPT ![w] = "insert"]
    /\ UNCHANGED <<store, dbUp, clock, url, id, collided, resp, returned, regenerated>>

\* Lines 87-92: the document handed to insert_one.
Document(w) ==
    [original_url |-> url[w],
     short_url |-> id[w],
     created_at |-> document[w].created_at,
     updated_at |-> document[w].updated_at]

\* Variant of insert_one: an upsert keyed by short_url, which overwrites the
\* documents already stored under the code.
insert_one_replacing(doc) ==
    IF Matching(doc.short_url) = {}
    THEN Append(store, doc)
    ELSE [i \in 1..Len(store) |->
             IF i \in Matching(doc.short_url) THEN doc ELSE store[i]]

\* Variant of insert_one: the write is sent again after it was applied.
insert_one_twice(doc) == Append(Append(store, doc), doc)

\* collection.insert_one(doc): appends; the collection has no unique index,
\* so nothing is checked.
insert_one(doc) == Append(store, doc)

\* Lines 93-99: insert_one, then the 201 response carrying id.
url_shorten_insert(w) ==
    /\ pc[w] = "insert"
    /\ IF ~dbUp
       THEN /\ Raise("shorten", NoCode)
            /\ UNCHANGED <<store, returned, regenerated>>
       ELSE /\ store' = insert_one(Document(w))
            /\ resp' = Response("shorten", "Created", id[w], NoUrl)
            /\ returned' = Append(returned, [code |-> id[w], url |-> url[w]])
            /\ regenerated' = collided[w]
    /\ Finish(w)
    /\ UNCHANGED <<dbUp, clock>>

(* ---------------------------- url_resolve ----------------------------- *)

\* The collection without its i-th document.
Without(i) == [j \in 1..(Len(store) - 1) |-> IF j < i THEN store[j] ELSE store[j + 1]]

\* Variant of url_resolve: the test of line 119 is missing, so subscripting
\* None at line 123 raises and the framework answers 500.
url_resolve_unguarded(w, c) ==
    /\ pc[w] = "idle"
    /\ IF ~dbUp \/ find_one(c) = {}
       THEN Raise("resolve", c)
       ELSE \E curr_url \in find_one(c) :
                resp' = Response("resolve", "Redirect", c, curr_url.original_url)
    /\ UNCHANGED <<store, dbUp, clock, pc, url, id, document, collided, returned, regenerated>>

\* Variant of url_resolve: find_one_and_delete in place of find_one.
url_resolve_deleting(w, c) ==
    /\ pc[w] = "idle"
    /\ IF ~dbUp
       THEN Raise("resolve", c) /\ UNCHANGED store
       ELSE IF find_one(c) = {}
            THEN /\ resp' = Response("resolve", "NotFound", c, NoUrl)
                 /\ UNCHANGED store
            ELSE \E i \in Matching(c) :
                     /\ resp' = Response("resolve", "Redirect", c, store[i].original_url)
                     /\ store' = Without(i)
    /\ UNCHANGED <<dbUp, clock, pc, url, id, document, collided, returned, regenerated>>

\* Variant of url_resolve: an exception of find_one is caught and curr_url
\* stays None, so a store failure is answered 404.
url_resolve_masking(w, c) ==
    /\ pc[w] = "idle"
    /\ IF ~dbUp \/ find_one(c) = {}
       THEN resp' = Response("resolve", "NotFound", c, NoUrl)
       ELSE \E curr_url \in find_one(c) :
                resp' = Response("resolve", "Redirect", c, curr_url.original_url)
    /\ UNCHANGED <<store, dbUp, clock, pc, url, id, document, collided, returned, regenerated>>

\* Lines 107-124: one find_one; 404 when it returns None, else a redirect
\* to the document's original_url.
url_resolve(w, c) ==
    /\ pc[w] = "idle"
    /\ IF ~dbUp
       THEN Raise("resolve", c)
       ELSE IF find_one(c) = {}
            THEN resp' = Response("resolve", "NotFound", c, NoUrl)
            ELSE \E curr_url \in find_one(c) :
                     resp' = Response("resolve", "Redirect", c, curr_url.original_url)
    /\ UNCHANGED <<store, dbUp, clock, pc, url, id, document, collided, returned, regenerated>>

(* --------------------------- specifications --------------------------- *)

\* The steps of worker w's handlers once a request is being served.
HandlerStep(w) ==
    \/ url_shorten_find(w)
    \/ url_shorten_created(w)
    \/ url_shorten_updated(w)
    \/ url_shorten_insert(w)

WorkerStep(w) ==
    \/ \E u \in Urls : url_shorten_begin(w, u)
    \/ HandlerStep(w)
    \/ \E c \in ShortUrls : url_resolve(w, c)

\* The timestamps are written into documents and never read again: no
\* handler branches on them.  Next leaves the clock where it is; NextTimed
\* lets it advance.
Next ==
    \/ DbFail
    \/ DbRecover
    \/ \E w \in Workers : WorkerStep(w)

NextTimed ==
    \/ Tick
    \/ Next

\* Several workers, requests arriving at any time.
Spec == Init /\ [][Next]_vars

SpecTimed == Init /\ [][NextTimed]_vars

\* The collection outlives the service: a run may start on a collection
\* that an earlier run left one document in.
InitSeeded ==
    /\ \E c \in Codes, u \in ValidUrls :
           store = << [original_url |-> u, short_url |-> c,
                       created_at |-> 0, updated_at |-> 0] >>
    /\ dbUp = TRUE
    /\ clock = 0
    /\ pc = [w \in Workers |-> "idle"]
    /\ url = [w \in Workers |-> NoUrl]
    /\ id = [w \in Workers |-> NoCode]
    /\ document = [w \in Workers |-> NoDocument]
    /\ collided = [w \in Workers |-> FALSE]
    /\ resp = NoResponse
    /\ returned = << >>
    /\ regenerated = FALSE

\* A worker that is inside a handler keeps running it.
Fairness == \A w \in Workers : WF_vars(HandlerStep(w))

FairSpec == InitSeeded /\ [][Next]_vars /\ Fairness

\* Clients that wait for the answer before sending the next shorten request:
\* url_shorten is entered only while no other url_shorten call is in progress.
Sequential ==
    \A w \in Workers : (pc[w] = "idle" /\ pc'[w] # "idle") => Busy = {}

SpecSeq == Init /\ [][Next /\ Sequential]_vars

\* Variant of Awaits: the store calls are awaited (an asynchronous driver),
\* so the coroutine is suspended before find_one and before insert_one.
Awaits_store_calls == {"find", "insert"}

\* The handler states at which url_shorten is suspended and its worker's
\* event loop may run another request: none.  The handler is "async def",
\* but lines 62-99 hold no await: find_one and insert_one are blocking calls.
Awaits == {}

\* One worker process runs every request on one event loop: a request can
\* take a step only while every other request of the process is not
\* started, finished, or suspended at an await.
Runnable(w) ==
    \A o \in Workers \ {w} : pc[o] \in {"idle"} \cup Awaits

\* A deployment with exactly one worker process: the members of Workers
\* are then the requests that this one process is serving concurrently.
NextOne ==
    \/ DbFail
    \/ DbRecover
    \/ \E w \in Workers, u \in Urls : Runnable(w) /\ url_shorten_begin(w, u)
    \/ \E w \in Workers : Runnable(w) /\ url_shorten_find(w)
    \/ \E w \in Workers : Runnable(w) /\ url_shorten_created(w)
    \/ \E w \in Workers : Runnable(w) /\ url_shorten_updated(w)
    \/ \E w \in Workers : Runnable(w) /\ url_shorten_insert(w)
    \/ \E w \in Workers, c \in ShortUrls : Runnable(w) /\ url_resolve(w, c)

SpecOne == Init /\ [][NextOne]_vars

(* ------------------------------ claims -------------------------------- *)

\* C1: in every reachable state the collection holds at most one document
\* per short_url, whatever the interleaving of the find_one and insert_one
\* steps of url_shorten calls running on different workers.
C1_OneMappingPerCode ==
    \A i, j \in 1..Len(store) :
        store[i].short_url = store[j].short_url => i = j

\* C2: round trip.  When the last response is the answer to GET /r/c and c
\* was returned by a successful shorten request for URL u, the answer is a
\* redirect to exactly u.
C2_RoundTrip ==
    resp.op = "resolve" /\ resp.status \in {"Redirect", "NotFound"} =>
        \A i \in 1..Len(returned) :
            returned[i].code = resp.code =>
                resp.status = "Redirect" /\ resp.url = returned[i].url

\* C3: when the url_shorten calls do not overlap (SpecSeq), the codes of
\* the 201 responses sent so far are pairwise distinct, also for repeated
\* URLs and whatever candidates generate_id yields.
C3_SequentialCodesDistinct ==
    \A i, j \in 1..Len(returned) :
        returned[i].code = returned[j].code => i = j

\* C3 witness: two sequential successful calls for the same URL, the second
\* of which first drew a stored code and regenerated.
C3_Witness ==
    /\ Len(returned) >= 2
    /\ returned[1].url = returned[2].url
    /\ regenerated
    /\ Busy = {}

\* C4: every url_shorten call terminates: a worker that is looking up a
\* candidate eventually leaves the handler (with a code or with a failure),
\* also when every candidate collides.
C4_AllocateTerminates ==
    \A w \in Workers : (pc[w] = "find") ~> (pc[w] = "idle")

\* C5: once the url_shorten calls that ran in parallel have all completed,
\* the codes they returned are pairwise distinct and the collection holds
\* one document per call, pairing that call's code with that call's URL.
C5_ParallelCallsDistinct ==
    Busy = {} =>
        /\ \A i, j \in 1..Len(returned) :
               i # j => returned[i].code # returned[j].code
        /\ Len(store) = Len(returned)
        /\ \A i \in 1..Len(returned) :
               \E j \in 1..Len(store) :
                   /\ store[j].short_url = returned[i].code
                   /\ store[j].original_url = returned[i].url

\* Worker w took a step of its url_shorten handler.
Acted(w) ==
    \/ pc'[w] # pc[w]
    \/ id'[w] # id[w]
    \/ collided'[w] # collided[w]

\* C6: collision handling.  A lookup that finds the candidate stored sends
\* no response and changes no document: the call stays in its loop.  When
\* the lookup found the candidate absent and insert_one succeeds, the
\* collection is the old one followed by the document (id, request.url)
\* and the response is 201 with that id.
C6_CollisionAbsorbed ==
    [][\A w \in Workers :
          /\ (pc[w] = "find" /\ dbUp /\ find_one(id[w]) # {} /\ Acted(w)) =>
                 /\ pc'[w] = "find"
                 /\ resp' = resp
                 /\ store' = store
          /\ (pc[w] = "insert" /\ dbUp /\ Acted(w)) =>
                 /\ Len(store') = Len(store) + 1
                 /\ SubSeq(store', 1, Len(store)) = store
                 /\ store'[Len(store')].short_url = id[w]
                 /\ store'[Len(store')].original_url = url[w]
                 /\ resp' = Response("shorten", "Created", id[w], NoUrl)
                 /\ pc'[w] = "idle"]_vars

\* C6 witness: a call that regenerated after a collision has answered 201
\* with a code other than the one stored first, and both are stored.
C6_Witness ==
    /\ resp.op = "shorten" /\ resp.status = "Created"
    /\ regenerated
    /\ Len(store) >= 2
    /\ store[Len(store)].short_url = resp.code
    /\ store[1].short_url # resp.code

\* C7: a GET /r/c answered while the store is reachable and holds no
\* document for c is answered 404 NotFound, with no URL.
C7_AbsentIsNotFound ==
    [][\A c \in ShortUrls :
          (/\ dbUp
           /\ find_one(c) = {}
           /\ resp' # resp
           /\ resp'.op = "resolve"
           /\ resp'.code = c) =>
              resp'.status = "NotFound" /\ resp'.url = NoUrl]_vars

\* C7 witness: GET /r/doesNotExist was answered 404 by a collection that
\* holds documents.
C7_Witness ==
    /\ resp = Response("resolve", "NotFound", doesNotExist, NoUrl)
    /\ store # << >>
    /\ dbUp

\* C8: stability of resolution.  Two successive redirects for the same code
\* lead to the same URL.
C8_StableResolution ==
    [][(/\ resp.op = "resolve" /\ resp.status = "Redirect"
        /\ resp'.op = "resolve" /\ resp'.status = "Redirect"
        /\ resp'.code = resp.code) =>
           resp'.url = resp.url]_vars

\* C9: url_resolve is a pure read.  A step after which the last response
\* is one of url_resolve (every url_resolve step is such a step, whatever
\* it answers) leaves the collection as it was.
C9_ResolveReadsOnly ==
    [][resp'.op = "resolve" => store' = store]_vars

\* C9 witness: a redirect was answered while another worker was inside
\* url_shorten, about to insert.
C9_Witness ==
    /\ resp.op = "resolve" /\ resp.status = "Redirect"
    /\ \E w \in Workers : pc[w] = "insert"

\* C10: a store call of url_shorten that raises (find_one in the loop, or
\* insert_one) ends the call with StoreUnavailable: neither the insert nor
\* another round follows, and the collection and the codes handed out are
\* unchanged.
C10_StoreFailureEndsAllocate ==
    [][\A w \in Workers :
          (pc[w] \in {"find", "insert"} /\ ~dbUp /\ Acted(w)) =>
              /\ pc'[w] = "idle"
              /\ store' = store
              /\ returned' = returned
              /\ resp' = Response("shorten", "StoreUnavailable", NoCode, NoUrl)]_vars

\* C10 witness: a shorten request was answered StoreUnavailable while the
\* collection held documents.
C10_Witness ==
    /\ resp = Response("shorten", "StoreUnavailable", NoCode, NoUrl)
    /\ store # << >>
    /\ ~dbUp

\* C11: a GET /r/c answered while find_one raises is answered
\* StoreUnavailable, never NotFound and never a redirect, whether or not a
\* document is stored under c.
C11_ResolveStoreFailure ==
    [][\A c \in ShortUrls :
          (/\ ~dbUp
           /\ resp' # resp
           /\ resp'.op = "resolve"
           /\ resp'.code = c) =>
              resp'.status = "StoreUnavailable" /\ resp'.url = NoUrl]_vars

\* C11 witness: GET /r/c for a stored code c was answered StoreUnavailable.
C11_Witness ==
    /\ resp.op = "resolve" /\ resp.status = "StoreUnavailable"
    /\ find_one(resp.code) # {}
    /\ ~dbUp

\* C12: a shorten request whose URL fails validators.url is answered
\* InvalidUrl by a step that generates no id, enters no handler state and
\* leaves the collection and the codes handed out unchanged; no handler
\* ever holds, and no document ever stores, a URL that fails validation.
C12_InvalidUrlRejected ==
    /\ [](/\ \A w \in Workers : url[w] # NoUrl => validators_url(url[w])
          /\ \A i \in 1..Len(store) : validators_url(store[i].original_url))
    /\ [][(resp' # resp /\ resp'.status = "InvalidUrl") =>
              /\ store' = store
              /\ returned' = returned
              /\ pc' = pc
              /\ id' = id
              /\ url' = url]_vars

\* C12 witness: InvalidUrl was answered while the store was unreachable and
\* held documents: the rejection needed no store call.
C12_Witness ==
    /\ resp = Response("shorten", "InvalidUrl", NoCode, NoUrl)
    /\ store # << >>
    /\ ~dbUp

\* A string of exactly CodeLength symbols, each of the alphabet.
WellFormed(c) ==
    /\ Len(c) = CodeLength
    /\ \A k \in 1..Len(c) : c[k] \in base62

\* C13: every code a 201 response carries and every short_url stored is a
\* string of exactly CodeLength symbols of the alphabet, and the i-th 201
\* response carries the short_url of the i-th document stored.
C13_CodesWellFormed ==
    /\ \A i \in 1..Len(returned) : WellFormed(returned[i].code)
    /\ \A i \in 1..Len(store) : WellFormed(store[i].short_url)
    /\ resp.status = "Created" => WellFormed(resp.code)
    /\ Len(store) = Len(returned)
    /\ \A i \in 1..Len(returned) : store[i].short_url = returned[i].code

\* C13 witness: two codes were handed out and stored, the second one drawn
\* by the regeneration of line 81.
C13_Witness ==
    /\ resp.op = "shorten" /\ resp.status = "Created"
    /\ Len(returned) >= 2
    /\ regenerated
    /\ store[Len(store)].short_url = resp.code

\* C14: the collection only grows, one document per 201 response.  A step
\* that changes the collection appends exactly one document, leaves every
\* document already stored as it was (original_url, created_at, updated_at
\* and short_url) and is the step that sends a 201; and every 201 comes with
\* such an append.
C14_StoreOnlyGrows ==
    [][/\ store' # store =>
              /\ Len(store') = Len(store) + 1
              /\ \A i \in 1..Len(store) : store'[i] = store[i]
              /\ resp'.op = "shorten" /\ resp'.status = "Created"
              /\ Len(returned') = Len(returned) + 1
       /\ returned' # returned => Len(store') = Len(store) + 1]_vars

\* C14 witness: two documents are stored, no request is in progress and the
\* last operation was a redirect.
C14_Witness ==
    /\ Len(store) >= 2
    /\ Busy = {}
    /\ resp.op = "resolve" /\ resp.status = "Redirect"

\* C15: every document stored has updated_at equal to created_at, also when
\* the clock advances while url_shorten builds the document.
C15_UpdatedEqualsCreated ==
    \A i \in 1..Len(store) : store[i].updated_at = store[i].created_at

\* C16: with exactly one worker process (SpecOne), whatever requests it
\* serves concurrently, at most one of them is inside url_shorten at a time,
\* a candidate found absent is still absent when it is inserted, and the
\* collection holds at most one document per short_url.
C16_SingleWorkerAtomic ==
    /\ Cardinality(Busy) <= 1
    /\ \A w \in Workers :
           pc[w] \in {"created", "updated", "insert"} => find_one(id[w]) = {}
    /\ \A i, j \in 1..Len(store) :
           store[i].short_url = store[j].short_url => i = j

\* C16 witness: the single worker has stored two documents for the same URL
\* under two codes, the second after a collision.
C16_Witness ==
    /\ Len(store) = 2
    /\ store[1].original_url = store[2].original_url
    /\ store[1].short_url # store[2].short_url
    /\ regenerated

====
